---- MODULE Spec2Model ----
(***************************************************************************)
(* The X-Ray SDK's run/step lifecycle (services/sdk/src/xray.ts) against   *)
(* the persistence API (services/api).  Every SDK method is an async       *)
(* function: it runs synchronously up to an await of a client request, and *)
(* is resumed when the request succeeds or fails.  A call in flight is a   *)
(* frame in calls; the server applies its request at some moment between   *)
(* the send and the response (a request that times out at the client may   *)
(* have been applied).                                                     *)
(***************************************************************************)
EXTENDS Integers, Sequences, FiniteSets, TLC

\* Bounds of the model: the call slots, and the budget a behaviour spends,
\* one unit for every create request sent, for every request that fails, for
\* every call that throws before it sends anything and, when a call is
\* issued, for every other call that is suspended.
MaxCalls == 2
MaxBudget == 4

\* Bound of the candidate batches: the length of a batch.
MaxBatch == 2

\* JavaScript's undefined, and the null that currentRun holds when no run is
\* open (a record, so that it compares with a Run object).
Undef == "undefined"
Null ==
  [id |-> 0, status |-> "null", completedAt |-> FALSE, output |-> Undef,
   error |-> Undef]

\* Arguments the caller may pass.
ErrorArgs == {Undef, "boom"}
OutputArgs == {"out"}
ReasoningArgs == {Undef}

VARIABLES
  currentRun,    \* XRay.currentRun: Null or the local Run object
  stepIndex,     \* XRay.stepIndex
  pendingSteps,  \* XRay.pendingSteps: the Map's entries in insertion order
  calls,         \* the async calls in flight, one frame per slot
  dbRuns,        \* the runs table, row i has id i
  dbSteps,       \* the steps table, row i has id i
  event,         \* what the last transition did, as the caller observes it
  hist,          \* history of returns and requests, for the properties
  config,        \* XRay.config: the capture thresholds
  recorded,      \* the last recordCandidates call: its arguments, the random
                 \* draws of its shuffle and the candidates it sent
  dbCandidates,  \* the candidates table, in insertion order
  dbFilters,     \* the filters table, in insertion order
  now,           \* the server's clock, in milliseconds
  answer         \* the body of the last response to a GET request

vars ==
  <<currentRun, stepIndex, pendingSteps, calls, dbRuns, dbSteps, event, hist,
    config, recorded, dbCandidates, dbFilters, now, answer>>

\* What the run/step lifecycle methods leave alone.
capture == <<config, recorded>>

\* What the SDK's methods leave alone: the tables of candidates and filters,
\* the server's clock and the responses to GET requests.
store == <<dbCandidates, dbFilters, now, answer>>

Slots == 1..MaxCalls
RunIds == 1..MaxBudget

\* JavaScript truthiness of a string | undefined value.
Truthy(v) == v \notin {Undef, ""}

----------------------------------------------------------------------------
\* Requests, frames, events.

NoReq ==
  [kind |-> "none", id |-> 0, runId |-> 0, stepIndex |-> 0, status |-> Undef,
   completedAt |-> FALSE, output |-> Undef, error |-> Undef, reasoning |-> Undef,
   captureAllCandidates |-> Undef, inputCount |-> <<>>, outputCount |-> <<>>,
   candidates |-> <<>>, stepType |-> Undef, candidatesAffected |-> 0,
   candidatesRejected |-> 0]

NoResp == [id |-> 0, status |-> Undef]

IdleFrame ==
  [op |-> "none", applied |-> FALSE, req |-> NoReq, resp |-> NoResp, cursor |-> 0]

Busy(c) == calls[c].op # "none"

\* What a transition did: the method (or request kind) and its outcome:
\* suspended at an await, returned, applied by the server, or the error
\* thrown (NoActiveRun, UnknownStep, Transport, TypeError); an UnknownStep
\* error names the step id it was thrown for.
EvId(op, outcome, id) == [op |-> op, outcome |-> outcome, id |-> id]
Ev(op, outcome) == EvId(op, outcome, 0)

----------------------------------------------------------------------------
\* The persistence service.

\* RunsRepository.create: the server assigns id and status running.
NewRunRow ==
  [status |-> "running", completedAt |-> FALSE, output |-> Undef, error |-> Undef]

\* StepsRepository.create
NewStepRow(req, at) ==
  [runId |-> req.runId, stepType |-> req.stepType, stepIndex |-> req.stepIndex,
   startedAt |-> at, status |-> "running",
   completedAt |-> FALSE, output |-> Undef, error |-> Undef,
   reasoning |-> req.reasoning,
   captureAllCandidates |->
     IF req.captureAllCandidates = Undef THEN "false"
     ELSE req.captureAllCandidates,
   inputCount |-> req.inputCount, outputCount |-> req.outputCount]

\* BaseRepository.update on a run: the fields present in the JSON body
\* overwrite the row, whatever the row holds (undefined fields are not sent).
UpdateRunRow(row, req) ==
  [status |-> IF req.status = Undef THEN row.status ELSE req.status,
   completedAt |-> IF req.completedAt THEN TRUE ELSE row.completedAt,
   output |-> IF req.output = Undef THEN row.output ELSE req.output,
   error |-> IF req.error = Undef THEN row.error ELSE req.error]

\* BaseRepository.update on a step.
UpdateStepRow(row, req) ==
  [row EXCEPT
    !.status = IF req.status = Undef THEN @ ELSE req.status,
    !.completedAt = IF req.completedAt THEN TRUE ELSE @,
    !.output = IF req.output = Undef THEN @ ELSE req.output,
    !.error = IF req.error = Undef THEN @ ELSE req.error,
    !.reasoning = IF req.reasoning = Undef THEN @ ELSE req.reasoning,
    !.inputCount = IF req.inputCount = <<>> THEN @ ELSE req.inputCount,
    !.outputCount = IF req.outputCount = <<>> THEN @ ELSE req.outputCount]

\* POST /api/steps/:stepId/candidates and CandidatesRepository.createMany:
\* one row per candidate of the body, under the step of the URL.
NewCandidateRows(stepId, candidates) ==
  [i \in 1..Len(candidates) |->
     [stepId |-> stepId, candidateId |-> candidates[i].candidateId,
      status |-> candidates[i].status, score |-> candidates[i].score,
      reason |-> candidates[i].reason]]

\* POST /api/steps/:stepId/filters and FiltersRepository.create: the counts
\* are stored as the body gives them.
NewFilterRow(req) ==
  [stepId |-> req.id, candidatesAffected |-> req.candidatesAffected,
   candidatesRejected |-> req.candidatesRejected]

\* No GET request answered yet.
NoAnswer == [kind |-> "none", arg |-> 0, rows |-> <<>>]

----------------------------------------------------------------------------
\* Pure parts of the SDK methods.

\* completeRun, line 92
RunStatusOf(error) == IF Truthy(error) THEN "failed" ELSE "completed"

\* A completeStep that takes every defined error for a failure.
StepStatusOfDefined(error) == IF error # Undef THEN "failed" ELSE "completed"

\* completeStep, line 170
StepStatusOf(error) == IF Truthy(error) THEN "failed" ELSE "completed"

\* completeRun, line 99: completeStep(step.id, undefined, 'Run completed'):
\* the third parameter of completeStep is error.
ForceCloseArgs ==
  [output |-> Undef, error |-> "Run completed", reasoning |-> Undef]

\* completeRun, line 98: the steps of the registry the loop closes.
NeedsForceClose(step) == step.status = "running"

\* completeStep, lines 167-177: the local step object after the call's
\* synchronous part.
CloseLocal(step, output, error, reasoning) ==
  [step EXCEPT
    !.status = StepStatusOf(error),
    !.completedAt = TRUE,
    !.output = output,
    !.error = error,
    !.reasoning = IF Truthy(reasoning) THEN reasoning ELSE @]

\* completeStep, lines 180-191: the update request.
StepUpdateReq(step) ==
  [NoReq EXCEPT
    !.kind = "updateStep", !.id = step.id, !.status = step.status,
    !.completedAt = step.completedAt, !.output = step.output,
    !.error = step.error, !.reasoning = step.reasoning]

\* completeRun, lines 92-95: the local run object after the synchronous part.
EndLocal(run, output, error) ==
  [run EXCEPT
    !.status = RunStatusOf(error), !.completedAt = TRUE,
    !.output = output, !.error = error]

\* completeRun, lines 103-108: the update request.
RunUpdateReq(run) ==
  [NoReq EXCEPT
    !.kind = "updateRun", !.id = run.id, !.status = run.status,
    !.completedAt = run.completedAt, !.output = run.output,
    !.error = run.error]

\* startRun, lines 73-77: the local run object built from the response.
LocalRun(resp) ==
  [id |-> resp.id, status |-> resp.status, completedAt |-> FALSE,
   output |-> Undef, error |-> Undef]

\* startStep, lines 123-146: the local step object built from the request
\* and the response.
LocalStep(req, resp) ==
  [id |-> resp.id, runId |-> req.runId, stepIndex |-> req.stepIndex,
   status |-> resp.status, completedAt |-> FALSE, output |-> Undef,
   error |-> Undef, reasoning |-> req.reasoning,
   captureAllCandidates |-> req.captureAllCandidates,
   inputCount |-> <<>>, outputCount |-> <<>>]

\* Map.get / Map.has on the registry.
PendingIds == {pendingSteps[i].id : i \in 1..Len(pendingSteps)}
PosOf(ps, id) == CHOOSE i \in 1..Len(ps) : ps[i].id = id

\* A completeStep that leaves its step in the registry.
WithoutNothing(ps, id) == ps

\* Map.delete (completeStep, line 193): the entries without the one keyed id.
Without(ps, id) == SelectSeq(ps, LAMBDA s : s.id # id)

\* A guard that never sees a missing run.
NoActiveRunNever == FALSE

\* completeRun, line 88, and startStep, line 119: !this.currentRun
NoActiveRun == currentRun = Null

\* A startRun that keeps the step counter.
StartRunIndexKept == stepIndex

\* startRun, line 78
StartRunIndex == 0

\* A startRun that keeps the registry.
StartRunRegistryKept == pendingSteps

\* startRun, line 79
StartRunRegistry == <<>>

\* completeRun, line 110
EndRun == Null

\* completeRun, line 111
EndIndex == 0

\* A completeRun that keeps the registry.
EndRegistryKept == pendingSteps

\* completeRun, line 112
EndRegistry == <<>>

\* A live Map iterator that has passed k entries, after the entry keyed id
\* is deleted: an entry deleted behind the iterator moves it back by one.
CursorAfterDelete(ps, k, id) ==
  IF \E i \in 1..Len(ps) : ps[i].id = id /\ i <= k THEN k - 1 ELSE k

\* The frames after Map.delete(id): every live iterator is adjusted.
FramesAfterDelete(fr, ps, id) ==
  [c \in Slots |-> [fr[c] EXCEPT !.cursor = CursorAfterDelete(ps, @, id)]]

\* The frames after Map.clear(): a live iterator starts over on what is
\* inserted afterwards.
FramesAfterClear(fr) ==
  [c \in Slots |-> [fr[c] EXCEPT !.cursor = 0]]

----------------------------------------------------------------------------
\* The capture strategy of recordCandidates.  An optional number (a score, a
\* threshold) is <<>> when it is undefined and <<n>> when it is n.

Min2(a, b) == IF a < b THEN a ELSE b

\* x || d on an optional number: 0 is falsy.
OrElse(x, d) == IF x = <<>> \/ x[1] = 0 THEN d ELSE x[1]

\* constructor, lines 38-44: the defaults, overwritten by the fields the
\* caller's config has.
ConfigDefaults ==
  [fullCaptureThreshold |-> <<100>>, topAcceptedCount |-> <<50>>,
   sampleRejectedCount |-> <<20>>]

ConfigOf(arg) ==
  [f \in DOMAIN ConfigDefaults |->
     IF arg[f] = <<>> THEN ConfigDefaults[f] ELSE arg[f]]

\* acceptedIds.includes(candidate.candidateId)
Includes(ids, k) == \E i \in 1..Len(ids) : ids[i] = k

\* recordCandidates, lines 217-218
CaptureAll(cfg, override, totalCount) ==
  IF override # Undef THEN override = "true"
  ELSE totalCount < OrElse(cfg.fullCaptureThreshold, 100)

\* A full capture that marks every candidate accepted.
FullCaptureAllAccepted(candidates, acceptedIds) ==
  [i \in 1..Len(candidates) |->
     [candidateId |-> candidates[i].candidateId, status |-> "accepted",
      score |-> candidates[i].score, reason |-> Undef]]

\* recordCandidates, lines 223-238
FullCapture(candidates, acceptedIds) ==
  [i \in 1..Len(candidates) |->
     LET status == IF Includes(acceptedIds, candidates[i].candidateId)
                   THEN "accepted" ELSE "rejected"
     IN [candidateId |-> candidates[i].candidateId, status |-> status,
         score |-> candidates[i].score,
         reason |-> IF status = "rejected" THEN "Filtered out" ELSE Undef]]

\* recordCandidates, lines 240-249
Accepted(candidates, acceptedIds) ==
  SelectSeq(candidates, LAMBDA c : Includes(acceptedIds, c.candidateId))

Rejected(candidates, acceptedIds) ==
  SelectSeq(candidates, LAMBDA c : ~Includes(acceptedIds, c.candidateId))

\* recordCandidates, line 251: the comparator's key, b.score || 0.
ScoreOr0(c) == OrElse(c.score, 0)

\* Array.prototype.sort with (a, b) => (b.score || 0) - (a.score || 0): a
\* stable sort, descending in the key.
InsertByScore(sorted, c) ==
  LET before == {i \in 1..Len(sorted) : ScoreOr0(sorted[i]) >= ScoreOr0(c)}
      n == Cardinality(before)
  IN SubSeq(sorted, 1, n) \o <<c>> \o SubSeq(sorted, n + 1, Len(sorted))

RECURSIVE SortByScore(_)
SortByScore(seq) ==
  IF seq = <<>> THEN <<>>
  ELSE InsertByScore(SortByScore(SubSeq(seq, 1, Len(seq) - 1)), seq[Len(seq)])

\* Array.prototype.slice(0, n): a negative n counts from the end.
Slice(seq, n) ==
  SubSeq(seq, 1, IF n < 0 THEN (IF Len(seq) + n < 0 THEN 0 ELSE Len(seq) + n)
                 ELSE Min2(n, Len(seq)))

\* recordCandidates, lines 253-264
TopAccepted(cfg, accepted) ==
  LET top == Slice(SortByScore(accepted), OrElse(cfg.topAcceptedCount, 50))
  IN [i \in 1..Len(top) |->
        [candidateId |-> top[i].candidateId, status |-> "accepted",
         score |-> top[i].score, reason |-> Undef]]

\* recordCandidates, lines 266-269
SampleSize(cfg, rejected) ==
  Min2(OrElse(cfg.sampleRejectedCount, 20), Len(rejected))

\* shuffle, lines 329-336: draws[i] is the index Math.random() picks for
\* position i (positions count from 1 here).
Draws(n) == {d \in [2..n -> 1..n] : \A i \in 2..n : d[i] <= i}

Swap(array, i, j) == [array EXCEPT ![i] = array[j], ![j] = array[i]]

RECURSIVE ShuffleFrom(_, _, _)
ShuffleFrom(array, draws, i) ==
  IF i < 2 THEN array
  ELSE ShuffleFrom(Swap(array, i, draws[i]), draws, i - 1)

Shuffle(array, draws) == ShuffleFrom(array, draws, Len(array))

\* recordCandidates, lines 270-281
Sampled(cfg, rejected, draws) ==
  LET sampled == Slice(Shuffle(rejected, draws), SampleSize(cfg, rejected))
  IN [i \in 1..Len(sampled) |->
        [candidateId |-> sampled[i].candidateId, status |-> "rejected",
         score |-> <<>>, reason |-> "Filtered out"]]

\* recordCandidates, lines 217-282: candidatesToRecord
CandidatesToRecord(cfg, override, candidates, acceptedIds, draws) ==
  IF CaptureAll(cfg, override, Len(candidates))
  THEN FullCapture(candidates, acceptedIds)
  ELSE TopAccepted(cfg, Accepted(candidates, acceptedIds))
         \o Sampled(cfg, Rejected(candidates, acceptedIds), draws)

\* No recordCandidates call yet.
NoRecord ==
  [stepId |-> 0, candidates |-> <<>>, acceptedIds |-> <<>>, draws |-> <<>>,
   override |-> Undef, captureAll |-> FALSE, sent |-> <<>>]

----------------------------------------------------------------------------
\* History, kept for the properties only.

InitHist ==
  [closed |-> {},                          \* steps a completeStep call closed
   frozenRun |->                           \* a replaced run's persisted and
     [r \in RunIds |->                     \* local status when startRun
        [db |-> "none", local |-> "none"]], \* replaced it
   spent |-> 0]                            \* the budget spent

Init ==
  /\ currentRun = Null
  /\ stepIndex = 0
  /\ pendingSteps = <<>>
  /\ calls = [c \in Slots |-> IdleFrame]
  /\ dbRuns = <<>>
  /\ dbSteps = <<>>
  /\ event = Ev("none", "init")
  /\ hist = InitHist
  /\ config = ConfigOf([f \in DOMAIN ConfigDefaults |-> <<>>])
  /\ recorded = NoRecord
  /\ dbCandidates = <<>>
  /\ dbFilters = <<>>
  /\ now = 0
  /\ answer = NoAnswer

\* A call that suspends may be issued in slot c, at the cost of n creates.
Others(c) == {d \in Slots \ {c} : Busy(d)}
Cost(c, n) == n + Cardinality(Others(c))
CanIssue(c, n) == ~Busy(c) /\ hist.spent + Cost(c, n) <= MaxBudget
Issued(c, n) == [hist EXCEPT !.spent = @ + Cost(c, n)]

\* A call that throws in its synchronous part: nothing but the error.
Thrown(ev) ==
  /\ hist.spent < MaxBudget
  /\ event' = ev
  /\ hist' = [hist EXCEPT !.spent = @ + 1]
  /\ UNCHANGED <<currentRun, stepIndex, pendingSteps, calls, dbRuns, dbSteps,
                 capture, store>>

Send(fr, c, op, req, k) ==
  [fr EXCEPT ![c] = [op |-> op, applied |-> FALSE, req |-> req,
                     resp |-> NoResp, cursor |-> k]]

----------------------------------------------------------------------------
\* startRun, lines 55-70: nothing of the engine changes before the await.
CallStartRun(c) ==
  /\ CanIssue(c, 1)
  /\ calls' = Send(calls, c, "startRun", [NoReq EXCEPT !.kind = "createRun"], 0)
  /\ event' = Ev("startRun", "suspended")
  /\ hist' = Issued(c, 1)
  /\ UNCHANGED <<currentRun, stepIndex, pendingSteps, dbRuns, dbSteps, capture, store>>

\* startRun, lines 73-81: after createRun succeeded.
ReturnStartRun(c) ==
  /\ calls[c].op = "startRun" /\ calls[c].applied
  /\ currentRun' = LocalRun(calls[c].resp)
  /\ stepIndex' = StartRunIndex
  /\ pendingSteps' = StartRunRegistry
  /\ calls' = [FramesAfterClear(calls) EXCEPT ![c] = IdleFrame]
  /\ event' = Ev("startRun", "returned")
  /\ hist' =
       [hist EXCEPT
         !.frozenRun =
           IF currentRun = Null THEN @
           ELSE [@ EXCEPT ![currentRun.id] =
                   [db |-> dbRuns[currentRun.id].status,
                    local |-> currentRun.status]]]
  /\ UNCHANGED <<dbRuns, dbSteps, capture, store>>

\* startStep, lines 118-141.
CallStartStep(c, reasoning) ==
  /\ ~Busy(c)
  /\ IF NoActiveRun
     THEN Thrown(Ev("startStep", "NoActiveRun"))
     ELSE /\ CanIssue(c, 1)
          /\ stepIndex' = stepIndex + 1
          /\ calls' = Send(calls, c, "startStep",
                           [NoReq EXCEPT !.kind = "createStep",
                                         !.runId = currentRun.id,
                                         !.stepIndex = stepIndex,
                                         !.reasoning = reasoning], 0)
          /\ event' = Ev("startStep", "suspended")
          /\ hist' = Issued(c, 1)
          /\ UNCHANGED <<currentRun, pendingSteps, dbRuns, dbSteps, capture, store>>

\* startStep, lines 144-150: after createStep succeeded.
ReturnStartStep(c) ==
  /\ calls[c].op = "startStep" /\ calls[c].applied
  /\ pendingSteps' = Append(pendingSteps, LocalStep(calls[c].req, calls[c].resp))
  /\ calls' = [calls EXCEPT ![c] = IdleFrame]
  /\ event' = Ev("startStep", "returned")
  /\ UNCHANGED <<currentRun, stepIndex, dbRuns, dbSteps, hist, capture, store>>

\* completeStep, lines 156-191.
CallCompleteStep(c, id, output, error, reasoning) ==
  /\ ~Busy(c)
  /\ IF id \notin PendingIds
     THEN Thrown(EvId("completeStep", "UnknownStep", id))
     ELSE LET j == PosOf(pendingSteps, id)
              closed == CloseLocal(pendingSteps[j], output, error, reasoning)
          IN /\ CanIssue(c, 0)
             /\ pendingSteps' = [pendingSteps EXCEPT ![j] = closed]
             /\ calls' = Send(calls, c, "completeStep", StepUpdateReq(closed), 0)
             /\ event' = Ev("completeStep", "suspended")
             /\ hist' = Issued(c, 0)
             /\ UNCHANGED <<currentRun, stepIndex, dbRuns, dbSteps, capture, store>>

\* completeStep, line 193: after updateStep succeeded.
ReturnCompleteStep(c) ==
  /\ calls[c].op = "completeStep" /\ calls[c].applied
  /\ pendingSteps' = Without(pendingSteps, calls[c].req.id)
  /\ calls' = [FramesAfterDelete(calls, pendingSteps, calls[c].req.id)
                 EXCEPT ![c] = IdleFrame]
  /\ event' = Ev("completeStep", "returned")
  /\ hist' = [hist EXCEPT !.closed = @ \cup {calls[c].req.id}]
  /\ UNCHANGED <<currentRun, stepIndex, dbRuns, dbSteps, capture, store>>

\* completeRun, lines 97-108, from the iterator's position in frame c on:
\* the loop passes the entries that are not running, awaits completeStep on
\* the first one that is, and after the last entry sends the run's update
\* (this.currentRun.id throws a TypeError when currentRun is null by then).
EndLoop(c, ps, fr, run) ==
  LET k == fr[c].cursor
      open == {j \in (k + 1)..Len(ps) : NeedsForceClose(ps[j])}
  IN /\ currentRun' = run
     /\ IF open # {}
        THEN LET j == CHOOSE x \in open : \A y \in open : x <= y
                 closed == CloseLocal(ps[j], ForceCloseArgs.output,
                                      ForceCloseArgs.error, ForceCloseArgs.reasoning)
             IN /\ pendingSteps' = [ps EXCEPT ![j] = closed]
                /\ calls' = Send(fr, c, "completeRun", StepUpdateReq(closed), j)
                /\ event' = Ev("completeRun", "suspended")
        ELSE IF run = Null
        THEN /\ pendingSteps' = ps
             /\ calls' = [fr EXCEPT ![c] = IdleFrame]
             /\ event' = Ev("completeRun", "TypeError")
        ELSE /\ pendingSteps' = ps
             /\ calls' = Send(fr, c, "completeRun", RunUpdateReq(run), Len(ps))
             /\ event' = Ev("completeRun", "suspended")

\* completeRun, lines 87-108, up to the first await.
CallCompleteRun(c, output, error) ==
  /\ ~Busy(c)
  /\ IF NoActiveRun
     THEN Thrown(Ev("completeRun", "NoActiveRun"))
     ELSE /\ CanIssue(c, 0)
          /\ EndLoop(c, pendingSteps, calls, EndLocal(currentRun, output, error))
          /\ hist' = Issued(c, 0)
          /\ UNCHANGED <<stepIndex, dbRuns, dbSteps, capture, store>>

\* completeRun, line 99 resumed: the awaited completeStep deleted its step
\* (line 193) and the loop goes on.
ResumeCompleteRun(c) ==
  /\ calls[c].op = "completeRun" /\ calls[c].applied
  /\ calls[c].req.kind = "updateStep"
  /\ EndLoop(c, Without(pendingSteps, calls[c].req.id),
             FramesAfterDelete(calls, pendingSteps, calls[c].req.id),
             currentRun)
  /\ UNCHANGED <<stepIndex, dbRuns, dbSteps, hist, capture, store>>

\* completeRun, lines 110-112: after updateRun succeeded.
ReturnCompleteRun(c) ==
  /\ calls[c].op = "completeRun" /\ calls[c].applied
  /\ calls[c].req.kind = "updateRun"
  /\ currentRun' = EndRun
  /\ stepIndex' = EndIndex
  /\ pendingSteps' = EndRegistry
  /\ calls' = [FramesAfterClear(calls) EXCEPT ![c] = IdleFrame]
  /\ event' = Ev("completeRun", "returned")
  /\ UNCHANGED <<dbRuns, dbSteps, hist, capture, store>>

\* A method that catches the rejection and returns normally.
FailSwallowed(c) ==
  /\ Busy(c)
  /\ hist.spent < MaxBudget
  /\ calls' = [calls EXCEPT ![c] = IdleFrame]
  /\ event' = Ev(calls[c].op, "returned")
  /\ hist' = [hist EXCEPT !.spent = @ + 1]
  /\ UNCHANGED <<currentRun, stepIndex, pendingSteps, dbRuns, dbSteps, capture, store>>

\* A method that goes on with its local object when the request rejects.
FailDegraded(c) ==
  /\ Busy(c)
  /\ hist.spent < MaxBudget
  /\ calls' = [calls EXCEPT ![c] = IdleFrame]
  /\ event' = Ev(calls[c].op, "degraded")
  /\ currentRun' = IF calls[c].op = "startRun"
                   THEN [Null EXCEPT !.status = "running"] ELSE currentRun
  /\ hist' = [hist EXCEPT !.spent = @ + 1]
  /\ UNCHANGED <<stepIndex, pendingSteps, dbRuns, dbSteps, capture, store>>

\* XRayClient: the awaited request rejects (network error, 4xx/5xx, timeout)
\* and the method throws at its await; nothing after the await runs.
Fail(c) ==
  /\ Busy(c)
  /\ hist.spent < MaxBudget
  /\ calls' = [calls EXCEPT ![c] = IdleFrame]
  /\ event' = Ev(calls[c].op, "Transport")
  /\ hist' = [hist EXCEPT !.spent = @ + 1]
  /\ UNCHANGED <<currentRun, stepIndex, pendingSteps, dbRuns, dbSteps, capture, store>>

\* The API handles the request of call c (routes -> repositories).
ServerApply(c) ==
  /\ Busy(c) /\ ~calls[c].applied
  /\ LET req == calls[c].req IN
       /\ dbRuns' =
            IF req.kind = "createRun" THEN Append(dbRuns, NewRunRow)
            ELSE IF req.kind = "updateRun"
            THEN [dbRuns EXCEPT ![req.id] = UpdateRunRow(@, req)]
            ELSE dbRuns
       /\ dbSteps' =
            IF req.kind = "createStep" THEN Append(dbSteps, NewStepRow(req, now))
            ELSE IF req.kind = "updateStep"
            THEN [dbSteps EXCEPT ![req.id] = UpdateStepRow(@, req)]
            ELSE dbSteps
       /\ dbCandidates' =
            IF req.kind = "createCandidates"
            THEN dbCandidates \o NewCandidateRows(req.id, req.candidates)
            ELSE dbCandidates
       /\ dbFilters' =
            IF req.kind = "createFilter" THEN Append(dbFilters, NewFilterRow(req))
            ELSE dbFilters
       /\ calls' =
            [calls EXCEPT ![c].applied = TRUE,
               ![c].resp =
                 IF req.kind = "createRun"
                 THEN [id |-> Len(dbRuns) + 1, status |-> NewRunRow.status]
                 ELSE IF req.kind = "createStep"
                 THEN [id |-> Len(dbSteps) + 1, status |-> NewStepRow(req, now).status]
                 ELSE NoResp]
       /\ event' = Ev(req.kind, "applied")
  /\ UNCHANGED <<currentRun, stepIndex, pendingSteps, hist, capture, now, answer>>

\* The step ids a caller passes: those the server has assigned, and one it
\* has not.
KnownStepIds == 1..(Len(dbSteps) + 1)

\* One step of slot c.
Step(c) ==
  \/ CallStartRun(c)
  \/ ReturnStartRun(c)
  \/ \E reasoning \in ReasoningArgs : CallStartStep(c, reasoning)
  \/ ReturnStartStep(c)
  \/ \E id \in KnownStepIds, output \in OutputArgs, error \in ErrorArgs,
        reasoning \in ReasoningArgs :
       CallCompleteStep(c, id, output, error, reasoning)
  \/ ReturnCompleteStep(c)
  \/ \E output \in OutputArgs, error \in ErrorArgs : CallCompleteRun(c, output, error)
  \/ ResumeCompleteRun(c)
  \/ ReturnCompleteRun(c)
  \/ Fail(c)
  \/ ServerApply(c)

\* Calls may be issued while others are suspended.
Next == \E c \in Slots : Step(c)

Spec == Init /\ [][Next]_vars

\* The caller awaits every call before issuing the next.
NextSeq == Step(1)

SpecSeq == Init /\ [][NextSeq]_vars

\* PATCH /api/runs/:id sent by any client of the API: the route hands the
\* body to BaseRepository.update as it is.
PatchRun(id, status, completedAt) ==
  /\ hist.spent < MaxBudget
  /\ dbRuns' = [dbRuns EXCEPT ![id] =
                  UpdateRunRow(@, [NoReq EXCEPT !.kind = "updateRun", !.id = id,
                                     !.status = status,
                                     !.completedAt = completedAt])]
  /\ event' = Ev("updateRun", "patched")
  /\ hist' = [hist EXCEPT !.spent = @ + 1]
  /\ UNCHANGED <<currentRun, stepIndex, pendingSteps, calls, dbSteps, capture, store>>

NextApi ==
  \/ Step(1)
  \/ \E id \in 1..Len(dbRuns), status \in {"running", "completed", "failed"},
        completedAt \in BOOLEAN :
       PatchRun(id, status, completedAt)

\* The SDK used sequentially, and other clients of the API.
SpecApi == Init /\ [][NextApi]_vars

----------------------------------------------------------------------------
\* recordCandidates on an open step.

\* The arguments of the model's recordCandidates calls: batches of
\* candidates with distinct ids and scores that are absent, negative or
\* positive; accepted ids that may repeat or name no candidate of the batch.
Scores == {<<>>, <<-1>>, <<1>>}

Batches ==
  UNION {[1..n -> Scores] : n \in 0..MaxBatch}

BatchOf(scores) ==
  [i \in 1..Len(scores) |-> [candidateId |-> i, score |-> scores[i]]]

AcceptedLists ==
  UNION {[1..n -> 1..(MaxBatch + 1)] : n \in 0..2}

\* The config objects passed to the constructor, and the captureAllCandidates
\* option passed to startStep.
ConfigArgs ==
  [fullCaptureThreshold : {<<>>, <<0>>, <<2>>},
   topAcceptedCount : {<<>>, <<0>>, <<1>>},
   sampleRejectedCount : {<<>>, <<0>>, <<1>>}]

Overrides == {Undef, "true", "false"}

\* The error arguments of completeStep, the empty string included.
CloseErrorArgs == {Undef, "", "boom"}

\* recordCandidates, lines 200-293, up to the await.
RecordCandidates(c, stepId, candidates, acceptedIds, draws) ==
  /\ ~Busy(c)
  /\ IF stepId \notin PendingIds
     THEN /\ Thrown(EvId("recordCandidates", "UnknownStep", stepId))
          /\ UNCHANGED capture
     ELSE LET j == PosOf(pendingSteps, stepId)
              step == pendingSteps[j]
              toRecord == CandidatesToRecord(config, step.captureAllCandidates,
                                             candidates, acceptedIds, draws)
          IN /\ CanIssue(c, 1)
             /\ pendingSteps' =
                  [pendingSteps EXCEPT ![j].inputCount = <<Len(candidates)>>,
                                       ![j].outputCount = <<Len(acceptedIds)>>]
             /\ recorded' =
                  [stepId |-> stepId, candidates |-> candidates,
                   acceptedIds |-> acceptedIds, draws |-> draws,
                   override |-> step.captureAllCandidates,
                   captureAll |-> CaptureAll(config, step.captureAllCandidates,
                                             Len(candidates)),
                   sent |-> toRecord]
             /\ IF toRecord # <<>>
                THEN /\ calls' = Send(calls, c, "recordCandidates",
                                      [NoReq EXCEPT !.kind = "createCandidates",
                                                    !.id = stepId,
                                                    !.candidates = toRecord], 0)
                     /\ event' = Ev("recordCandidates", "suspended")
                ELSE /\ calls' = calls
                     /\ event' = Ev("recordCandidates", "returned")
             /\ hist' = Issued(c, 1)
             /\ UNCHANGED <<currentRun, stepIndex, dbRuns, dbSteps, config, store>>

\* recordCandidates, line 294: after createCandidates succeeded.
ReturnRecordCandidates(c) ==
  /\ calls[c].op = "recordCandidates" /\ calls[c].applied
  /\ calls' = [calls EXCEPT ![c] = IdleFrame]
  /\ event' = Ev("recordCandidates", "returned")
  /\ UNCHANGED <<currentRun, stepIndex, pendingSteps, dbRuns, dbSteps, hist,
                 capture, store>>

\* new XRay(arg), startRun() and startStep({captureAllCandidates: override})
\* have returned: one run is active and its first step is open.  One unit
\* of the budget is left: one recordCandidates call, or one call that fails.
RecStart(arg, override) ==
    LET req == [NoReq EXCEPT !.kind = "createStep", !.runId = 1,
                             !.captureAllCandidates = override]
        run == [id |-> 1, status |-> NewRunRow.status]
        row == NewStepRow(req, 0)
    IN /\ currentRun = LocalRun(run)
       /\ stepIndex = 1
       /\ pendingSteps = <<LocalStep(req, [id |-> 1, status |-> row.status])>>
       /\ calls = [c \in Slots |-> IdleFrame]
       /\ dbRuns = <<NewRunRow>>
       /\ dbSteps = <<row>>
       /\ event = Ev("startStep", "returned")
       /\ hist = [InitHist EXCEPT !.spent = MaxBudget - 1]
       /\ config = ConfigOf(arg)
       /\ recorded = NoRecord
       /\ dbCandidates = <<>>
       /\ dbFilters = <<>>
       /\ now = 0
       /\ answer = NoAnswer

InitRec == \E arg \in ConfigArgs, override \in Overrides : RecStart(arg, override)

\* The calls on the open step: recordCandidates, then completeStep.
NextRec ==
  \/ /\ ~Busy(1) /\ hist.spent < MaxBudget
     /\ \E stepId \in KnownStepIds, scores \in Batches,
           acceptedIds \in AcceptedLists :
          \E draws \in Draws(Len(Rejected(BatchOf(scores), acceptedIds))) :
            RecordCandidates(1, stepId, BatchOf(scores), acceptedIds, draws)
  \/ ReturnRecordCandidates(1)
  \/ \E id \in KnownStepIds, output \in OutputArgs, error \in CloseErrorArgs,
        reasoning \in ReasoningArgs :
       CallCompleteStep(1, id, output, error, reasoning)
  \/ ReturnCompleteStep(1)
  \/ Fail(1)
  \/ ServerApply(1)

SpecRec == InitRec /\ [][NextRec]_vars

\* Config objects with negative thresholds: the constructor takes every
\* config object as it is (lines 37-50).
SignedConfigArgs ==
  [fullCaptureThreshold : {<<>>, <<-1>>},
   topAcceptedCount : {<<>>, <<-1>>},
   sampleRejectedCount : {<<>>, <<-1>>}]

InitCfg == \E arg \in SignedConfigArgs : RecStart(arg, Undef)

\* recordCandidates on an engine constructed from any of these configs.
SpecCfg == InitCfg /\ [][NextRec]_vars

----------------------------------------------------------------------------
\* The elimination-ratio query of the API, on steps that clients of the API
\* write.  A threshold is a number of hundredths.

\* The bodies of POST /api/steps: the step's type and its counts.
StepTypeArgs == {"filtering", "ranking"}

CountArgs ==
  {<< <<>>, <<>> >>, << <<0>>, <<0>> >>, << <<100>>, <<>> >>,
   << <<100>>, <<5>> >>, << <<100>>, <<50>> >>}

\* The threshold parameter of the query string.
ThresholdArgs == {Undef, "0.01", "0.9"}

\* parseFloat on the query strings of the model, in hundredths.
ParseFloat(str) == CASE str = "0.01" -> 1 [] str = "0.9" -> 90

\* GET /api/steps/query/high-elimination: the threshold when the query
\* string has none, 0.9.
DefaultThreshold == 90

ThresholdOf(arg) == IF Truthy(arg) THEN ParseFloat(arg) ELSE DefaultThreshold

\* findFilteringStepsWithHighElimination: the three conditions of the WHERE
\* clause.  A comparison with NULL is not true; PostgreSQL evaluates the
\* cheaper condition inputCount > 0 first, so that no ratio is computed for
\* a row with inputCount 0.
IsFilteringAny(row) == TRUE

IsFiltering(row) == row.stepType = "filtering"

HasInput(row) == row.inputCount # <<>> /\ row.inputCount[1] > 0

\* The condition as the README reads it: more than the fraction t eliminated.
EliminatedAbove(row, t) ==
  /\ row.outputCount # <<>>
  /\ 100 * (row.inputCount[1] - row.outputCount[1]) > t * row.inputCount[1]

\* CAST(outputCount AS FLOAT) / CAST(inputCount AS FLOAT) < threshold
RatioBelow(row, t) ==
  /\ row.outputCount # <<>>
  /\ 100 * row.outputCount[1] < t * row.inputCount[1]

Selected(steps, t) ==
  {s \in 1..Len(steps) :
     IsFiltering(steps[s]) /\ HasInput(steps[s]) /\ RatioBelow(steps[s], t)}

\* ORDER BY startedAt DESC: the orders the database may return the selected
\* rows in; rows with the same timestamp come in any order.
OrderedByStartedAt(steps, ids) ==
  {rows \in [1..Cardinality(ids) -> ids] :
     /\ \A i, j \in DOMAIN rows : rows[i] = rows[j] => i = j
     /\ \A i, j \in DOMAIN rows :
          i < j => steps[rows[i]].startedAt >= steps[rows[j]].startedAt}

\* A request of an API client that changes a table costs one unit of the
\* budget.
Charged == [hist EXCEPT !.spent = @ + 1]

\* POST /api/steps with a body of runId, stepType, stepIndex (index) and
\* counts; the server's clock has gone on by dt milliseconds since the last
\* request.
PostStep(runId, stepType, index, counts, dt) ==
  /\ hist.spent < MaxBudget
  /\ now' = now + dt
  /\ dbSteps' =
       Append(dbSteps,
              NewStepRow([NoReq EXCEPT !.kind = "createStep", !.runId = runId,
                                       !.stepType = stepType,
                                       !.stepIndex = index,
                                       !.inputCount = counts[1],
                                       !.outputCount = counts[2]], now'))
  /\ event' = Ev("createStep", "posted")
  /\ hist' = Charged
  /\ UNCHANGED <<currentRun, stepIndex, pendingSteps, calls, dbRuns, capture,
                 dbCandidates, dbFilters, answer>>

\* PATCH /api/steps/:id with a body of counts.
PatchStep(id, counts) ==
  /\ hist.spent < MaxBudget
  /\ dbSteps' =
       [dbSteps EXCEPT ![id] =
          UpdateStepRow(@, [NoReq EXCEPT !.kind = "updateStep", !.id = id,
                                         !.inputCount = counts[1],
                                         !.outputCount = counts[2]])]
  /\ event' = Ev("updateStep", "patched")
  /\ hist' = Charged
  /\ UNCHANGED <<currentRun, stepIndex, pendingSteps, calls, dbRuns, capture,
                 store>>

\* GET /api/steps/query/high-elimination?threshold=arg
HighElimination(arg) ==
  /\ \E rows \in OrderedByStartedAt(dbSteps, Selected(dbSteps, ThresholdOf(arg))) :
       answer' = [kind |-> "high-elimination", arg |-> ThresholdOf(arg),
                  rows |-> rows]
  /\ event' = Ev("high-elimination", "answered")
  /\ UNCHANGED <<currentRun, stepIndex, pendingSteps, calls, dbRuns, dbSteps,
                 hist, capture, dbCandidates, dbFilters, now>>

\* One run exists; three requests of the budget are left.
InitQuery ==
  /\ currentRun = Null
  /\ stepIndex = 0
  /\ pendingSteps = <<>>
  /\ calls = [c \in Slots |-> IdleFrame]
  /\ dbRuns = <<NewRunRow>>
  /\ dbSteps = <<>>
  /\ event = Ev("createRun", "posted")
  /\ hist = [InitHist EXCEPT !.spent = MaxBudget - 3]
  /\ config = ConfigOf([f \in DOMAIN ConfigDefaults |-> <<>>])
  /\ recorded = NoRecord
  /\ dbCandidates = <<>>
  /\ dbFilters = <<>>
  /\ now = 0
  /\ answer = NoAnswer

NextQuery ==
  \/ \E stepType \in StepTypeArgs, counts \in CountArgs, dt \in {0, 1} :
       PostStep(1, stepType, Len(dbSteps), counts, dt)
  \/ \E id \in 1..Len(dbSteps), counts \in CountArgs : PatchStep(id, counts)
  \/ \E arg \in ThresholdArgs : HighElimination(arg)

SpecQuery == InitQuery /\ [][NextQuery]_vars

----------------------------------------------------------------------------
\* Filters and candidates of a step, and the run with its details.

\* recordFilter, lines 299-317: the filter is sent as the caller gave it.
RecordFilter(c, stepId, candidatesAffected, candidatesRejected) ==
  /\ CanIssue(c, 1)
  /\ calls' = Send(calls, c, "recordFilter",
                   [NoReq EXCEPT !.kind = "createFilter", !.id = stepId,
                                 !.candidatesAffected = candidatesAffected,
                                 !.candidatesRejected = candidatesRejected], 0)
  /\ event' = Ev("recordFilter", "suspended")
  /\ hist' = Issued(c, 1)
  /\ UNCHANGED <<currentRun, stepIndex, pendingSteps, dbRuns, dbSteps, capture,
                 store>>

\* recordFilter, line 317: after createFilter succeeded.
ReturnRecordFilter(c) ==
  /\ calls[c].op = "recordFilter" /\ calls[c].applied
  /\ calls' = [calls EXCEPT ![c] = IdleFrame]
  /\ event' = Ev("recordFilter", "returned")
  /\ UNCHANGED <<currentRun, stepIndex, pendingSteps, dbRuns, dbSteps, hist,
                 capture, store>>

\* GET /api/runs/:id, line 304: findByStepId(step.id, { limit: 100 })
RunDetailLimit == 100

\* A body of n candidates without scores, as an API client posts it.
CandidatesBody(n) ==
  [i \in 1..n |->
     [candidateId |-> i, status |-> "accepted", score |-> <<>>, reason |-> Undef]]

\* POST /api/steps/:stepId/candidates with a body of n candidates.
PostCandidates(stepId, n) ==
  /\ hist.spent < MaxBudget
  /\ dbCandidates' = dbCandidates \o NewCandidateRows(stepId, CandidatesBody(n))
  /\ event' = Ev("createCandidates", "posted")
  /\ hist' = Charged
  /\ UNCHANGED <<currentRun, stepIndex, pendingSteps, calls, dbRuns, dbSteps,
                 capture, dbFilters, now, answer>>

\* The rows of a table that belong to a step, as positions in the table.
RowsOfStep(tbl, stepId) ==
  SelectSeq([i \in 1..Len(tbl) |-> i], LAMBDA i : tbl[i].stepId = stepId)

\* ORDER BY score DESC NULLS LAST on rows given by their positions; rows of
\* equal score stay in the order of the table, one of the orders the
\* database may return.
RECURSIVE ByScoreDesc(_, _)
ByScoreDesc(tbl, idx) ==
  IF idx = <<>> THEN <<>>
  ELSE LET scores == {tbl[idx[i]].score : i \in 1..Len(idx)}
           top == CHOOSE v \in scores :
                    \A w \in scores : w = <<>> \/ (v # <<>> /\ v[1] >= w[1])
       IN SelectSeq(idx, LAMBDA i : tbl[i].score = top)
            \o ByScoreDesc(tbl, SelectSeq(idx, LAMBDA i : tbl[i].score # top))

\* CandidatesRepository.findByStepId(stepId, { limit })
FindCandidates(tbl, stepId, limit) ==
  Slice(ByScoreDesc(tbl, RowsOfStep(tbl, stepId)), limit)

\* FiltersRepository.findByStepId
FindFilters(tbl, stepId) == RowsOfStep(tbl, stepId)

\* where: { runId }
StepsOfRun(steps, runId) == {s \in 1..Len(steps) : steps[s].runId = runId}

\* StepsRepository.findByRunId: the steps of the run, ORDER BY stepIndex ASC;
\* steps with the same index come in any order.
FindByRunId(steps, runId) ==
  LET ids == StepsOfRun(steps, runId)
  IN {rows \in [1..Cardinality(ids) -> ids] :
        /\ \A i, j \in DOMAIN rows : rows[i] = rows[j] => i = j
        /\ \A i, j \in DOMAIN rows :
             i < j => steps[rows[i]].stepIndex <= steps[rows[j]].stepIndex}

\* GET /api/runs/:id, lines 290-325: every step with its candidates and
\* filters.
GetRun(id) ==
  /\ \E steps \in FindByRunId(dbSteps, id) :
       answer' =
         [kind |-> "run", arg |-> id,
          rows |-> [i \in DOMAIN steps |->
                      [id |-> steps[i],
                       candidates |->
                         FindCandidates(dbCandidates, steps[i], RunDetailLimit),
                       filters |-> FindFilters(dbFilters, steps[i])]]]
  /\ event' = Ev("run", "answered")
  /\ UNCHANGED <<currentRun, stepIndex, pendingSteps, calls, dbRuns, dbSteps,
                 hist, capture, dbCandidates, dbFilters, now>>

\* The counts a caller passes to recordFilter, and the sizes of the bodies
\* an API client posts.
FilterCountArgs == {0, 1}
BodySizes == {1, RunDetailLimit}

\* startRun() has returned; three requests of the budget are left.
InitStore ==
  /\ currentRun = LocalRun([id |-> 1, status |-> NewRunRow.status])
  /\ stepIndex = 0
  /\ pendingSteps = <<>>
  /\ calls = [c \in Slots |-> IdleFrame]
  /\ dbRuns = <<NewRunRow>>
  /\ dbSteps = <<>>
  /\ event = Ev("startRun", "returned")
  /\ hist = [InitHist EXCEPT !.spent = MaxBudget - 3]
  /\ config = ConfigOf([f \in DOMAIN ConfigDefaults |-> <<>>])
  /\ recorded = NoRecord
  /\ dbCandidates = <<>>
  /\ dbFilters = <<>>
  /\ now = 0
  /\ answer = NoAnswer

NextStore ==
  \/ \E index \in {0, 1} : PostStep(1, "filtering", index, << <<>>, <<>> >>, 1)
  \/ \E stepId \in 1..Len(dbSteps), n \in BodySizes : PostCandidates(stepId, n)
  \/ \E stepId \in 1..Len(dbSteps), candidatesAffected \in FilterCountArgs,
        candidatesRejected \in FilterCountArgs :
       RecordFilter(1, stepId, candidatesAffected, candidatesRejected)
  \/ ReturnRecordFilter(1)
  \/ Fail(1)
  \/ ServerApply(1)
  \/ GetRun(1)

SpecStore == InitStore /\ [][NextStore]_vars

----------------------------------------------------------------------------
\* Properties.

\* The persisted steps of run r.
StepsOf(steps, r) == {s \in 1..Len(steps) : steps[s].runId = r}

\* Call c returns from completeRun in this transition.
EndReturns(c) ==
  /\ calls[c].op = "completeRun" /\ calls[c].req.kind = "updateRun"
  /\ calls'[c].op = "none"
  /\ event' = Ev("completeRun", "returned")

\* C1: when completeRun returns successfully, no persisted step of the run it
\* ended has status running, whatever startStep/completeStep calls came
\* before, those that failed with a persistence error included.
C1_NoStepLeftRunning ==
  [][\A c \in Slots :
       EndReturns(c) =>
         \A s \in StepsOf(dbSteps', calls[c].req.id) :
           dbSteps'[s].status # "running"]_vars

\* C2: a step that completeRun force-closes is persisted with status
\* completed, without an error message and with the placeholder reasoning.
C2_ForceClosedAsCompleted ==
  \A c \in Slots :
    (calls[c].op = "completeRun" /\ calls[c].req.kind = "updateStep"
       /\ calls[c].applied) =>
      LET row == dbSteps[calls[c].req.id]
      IN /\ row.status = "completed"
         /\ row.error = Undef
         /\ row.reasoning = "run ended while step was open"

\* C3: the steps created for one run carry the indices 0, 1, 2, ... in the
\* order of their creation, without a gap.
C3_IndicesWithoutGaps ==
  \A s \in 1..Len(dbSteps) :
    dbSteps[s].stepIndex =
      Cardinality({t \in StepsOf(dbSteps, dbSteps[s].runId) : t < s})

\* C4: when completeRun has returned, the registry is empty, the step counter
\* is 0 and no run is active, whether the run's steps were closed or not.
C4_EndClearsEngine ==
  event = Ev("completeRun", "returned") =>
    /\ pendingSteps = <<>>
    /\ stepIndex = 0
    /\ currentRun = Null

\* completeRun has returned after it force-closed a step.
C4_Witness ==
  /\ event = Ev("completeRun", "returned")
  /\ currentRun = Null /\ pendingSteps = <<>> /\ stepIndex = 0
  /\ \E s \in 1..Len(dbSteps) : dbSteps[s].error = ForceCloseArgs.error

\* C5: completeStep succeeds at most once per step.  A call for an id that is
\* not in the registry throws the unknown-step error and sends nothing; an
\* update is sent only for a registered step that no call has closed; and a
\* step whose completeStep returns is out of the registry.
C5_CloseStepOnce ==
  [][\A c \in Slots :
       /\ event'.outcome = "UnknownStep" =>
            /\ event'.id \notin PendingIds
            /\ UNCHANGED <<currentRun, stepIndex, pendingSteps, calls, dbRuns,
                           dbSteps>>
       /\ (calls[c].op = "none" /\ calls'[c].op = "completeStep") =>
            /\ calls'[c].req.id \in PendingIds
            /\ calls'[c].req.id \notin hist.closed
       /\ (calls[c].op = "completeStep" /\ event' = Ev("completeStep", "returned")) =>
            /\ calls[c].req.id \notin hist.closed
            /\ calls[c].req.id \in hist'.closed
            /\ calls[c].req.id \notin
                 {pendingSteps'[i].id : i \in 1..Len(pendingSteps')}]_vars

\* A second completeStep on a step that a first one closed has thrown the
\* unknown-step error.
C5_Witness ==
  /\ event.outcome = "UnknownStep"
  /\ event.id \in hist.closed
  /\ dbSteps[event.id].status = "completed"

\* C6: every closing update the persistence service applies finds its step
\* in status running: a step leaves running once, and the engine sends one
\* closing update per step, under every interleaving of completeStep and
\* completeRun calls.
C6_OneClosingUpdate ==
  [][\A c \in Slots :
       (calls[c].req.kind = "updateStep" /\ ~calls[c].applied
          /\ calls'[c].applied) =>
         dbSteps[calls[c].req.id].status = "running"]_vars

\* C7: a persisted run's status changes only from running to completed or to
\* failed, and its completion timestamp is set exactly when its status is
\* not running.
C7_RunStatusOnce ==
  [][\A r \in 1..Len(dbRuns) :
       /\ dbRuns'[r].status # dbRuns[r].status =>
            /\ dbRuns[r].status = "running"
            /\ dbRuns'[r].status \in {"completed", "failed"}
       /\ dbRuns'[r].completedAt <=> dbRuns'[r].status # "running"]_vars

\* Run r was replaced by a startRun while it was the active run.
Replaced(h, r) == h.frozenRun[r].db # "none"

\* No request in flight concerns run r or one of its steps.
NothingInFlightFor(fr, steps, r) ==
  \A c \in Slots :
    /\ fr[c].req.kind = "updateRun" => fr[c].req.id # r
    /\ fr[c].req.kind = "createStep" => fr[c].req.runId # r
    /\ fr[c].req.kind = "updateStep" => fr[c].req.id \notin StepsOf(steps, r)

\* C8: a startRun issued while a run is open replaces it.  From then on the
\* replaced run is never the active run, the registry holds none of its
\* steps (completeStep on them throws the unknown-step error, completeRun
\* does not force-close them), no request concerns it or its steps, and its
\* record and its steps' records stay as they were: a run that no
\* completeRun had touched stays running.
C8_ReplacedRunAbandoned ==
  [][\A r \in RunIds :
       Replaced(hist', r) =>
         /\ currentRun'.id # r
         /\ \A i \in 1..Len(pendingSteps') : pendingSteps'[i].runId # r
         /\ NothingInFlightFor(calls', dbSteps', r)
         /\ dbRuns'[r].status = hist'.frozenRun[r].db
         /\ hist'.frozenRun[r].local = "running" => dbRuns'[r].status = "running"
         /\ Replaced(hist, r) =>
              /\ dbRuns'[r] = dbRuns[r]
              /\ \A s \in StepsOf(dbSteps, r) : dbSteps'[s] = dbSteps[s]]_vars

\* Run 1 was replaced while it was running with a step open; completeStep on
\* that step has thrown the unknown-step error and the step is still
\* running.
C8_Witness ==
  /\ hist.frozenRun[1].local = "running"
  /\ currentRun.id = 2
  /\ event.outcome = "UnknownStep"
  /\ event.id \in StepsOf(dbSteps, 1)
  /\ dbSteps[event.id].status = "running"
  /\ dbRuns[1].status = "running"

\* C9: when startRun returns, the run it created is running, locally and in
\* the persistence service, the registry is empty and the step counter is 0;
\* the startStep that follows it sends index 0.
C9_BeginResets ==
  [][/\ event' = Ev("startRun", "returned") =>
          /\ currentRun'.status = "running"
          /\ dbRuns'[currentRun'.id].status = "running"
          /\ pendingSteps' = <<>>
          /\ stepIndex' = 0
     /\ \A c \in Slots :
          (event = Ev("startRun", "returned") /\ calls[c].op = "none"
             /\ calls'[c].op = "startStep") =>
            calls'[c].req.stepIndex = 0]_vars

\* The first startStep of a second run has returned index 0, after the
\* first run had steps of its own.
C9_Witness ==
  /\ event = Ev("startStep", "returned")
  /\ currentRun.id = 2
  /\ StepsOf(dbSteps, 1) # {}
  /\ Len(pendingSteps) = 1
  /\ pendingSteps[1].runId = 2 /\ pendingSteps[1].stepIndex = 0

\* C10: while no run is active, startStep and completeRun throw the
\* no-active-run error: no call of theirs gets to a persistence request, and
\* the error leaves the engine and the persistence service as they were.
C10_NoActiveRunRejected ==
  [][/\ currentRun = Null =>
          \A c \in Slots :
            calls[c].op = "none" => calls'[c].op \notin {"startStep", "completeRun"}
     /\ event'.outcome = "NoActiveRun" =>
          /\ currentRun = Null
          /\ UNCHANGED <<currentRun, stepIndex, pendingSteps, calls, dbRuns,
                         dbSteps>>]_vars

\* completeRun has thrown the no-active-run error after an earlier
\* completeRun ended the run.
C10_Witness ==
  /\ event = Ev("completeRun", "NoActiveRun")
  /\ currentRun = Null
  /\ Len(dbRuns) = 1 /\ dbRuns[1].status = "completed"

\* C11: completeStep sets the step's status to failed when its error argument
\* is a non-empty string and to completed when it is absent or empty: in the
\* update it sends, on the local step, and in the persisted step once the
\* update is applied.
C11_StatusFromError ==
  \A c \in Slots :
    calls[c].op = "completeStep" =>
      LET req == calls[c].req
          status == IF req.error \in {Undef, ""} THEN "completed" ELSE "failed"
      IN /\ req.status = status
         /\ \A i \in 1..Len(pendingSteps) :
              pendingSteps[i].id = req.id => pendingSteps[i].status = status
         /\ calls[c].applied => dbSteps[req.id].status = status

\* A completeStep with the empty string as error was applied: the step is
\* completed.
C11_Witness ==
  \E c \in Slots :
    /\ calls[c].op = "completeStep" /\ calls[c].applied
    /\ calls[c].req.error = ""
    /\ dbSteps[calls[c].req.id].status = "completed"

\* Call c ends in this transition.
Ends(c) == Busy(c) /\ calls'[c].op = "none"

Recorded == recorded.stepId # 0

\* The threshold as configured: the constructor's default when the caller
\* configured none.
Threshold == config.fullCaptureThreshold[1]
TopCount == config.topAcceptedCount[1]
SampleCount == config.sampleRejectedCount[1]

\* The capture mode the specification prescribes for the recorded call.
FullMode ==
  \/ recorded.override = "true"
  \/ recorded.override = Undef /\ Len(recorded.candidates) < Threshold

HybridMode ==
  /\ recorded.override # "true"
  /\ Len(recorded.candidates) >= Threshold

\* The emitted items of one status.
Emitted(status) == SelectSeq(recorded.sent, LAMBDA e : e.status = status)

\* C14: in full capture (override true, or no override and count below the
\* threshold) recordCandidates emits as many items as the batch has, every
\* candidate id of the batch exactly once, accepted when the id is among the
\* accepted ids and rejected otherwise.
C14_FullCapture ==
  (Recorded /\ FullMode) =>
    /\ Len(recorded.sent) = Len(recorded.candidates)
    /\ \A i \in 1..Len(recorded.candidates) :
         LET k == recorded.candidates[i].candidateId
             hits == {j \in 1..Len(recorded.sent) : recorded.sent[j].candidateId = k}
         IN /\ Cardinality(hits) = 1
            /\ \A j \in hits :
                 recorded.sent[j].status =
                   IF Includes(recorded.acceptedIds, k) THEN "accepted"
                   ELSE "rejected"

\* A batch of two below the default threshold was captured in full: one
\* candidate accepted, one rejected.
C14_Witness ==
  /\ Recorded /\ FullMode
  /\ recorded.override = Undef
  /\ Len(recorded.candidates) = 2
  /\ Len(Emitted("accepted")) = 1 /\ Len(Emitted("rejected")) = 1

\* The partitions of the recorded batch.
AcceptedPart == Accepted(recorded.candidates, recorded.acceptedIds)
RejectedPart == Rejected(recorded.candidates, recorded.acceptedIds)

\* The candidate of the recorded batch with id k is emitted with a status.
EmittedAs(k, status) ==
  \E j \in 1..Len(recorded.sent) :
    recorded.sent[j].candidateId = k /\ recorded.sent[j].status = status

C16_CaptureModeDecision ==
  Recorded =>
    recorded.captureAll =
      IF recorded.override # Undef THEN recorded.override = "true"
      ELSE Len(recorded.candidates) < Threshold

\* C17: in hybrid mode an accepted candidate without a score is not emitted
\* among the top accepted ones while an accepted candidate with a score, a
\* negative one included, is left out.
C17_AbsentScoreRanksLast ==
  (Recorded /\ ~recorded.captureAll) =>
    \A i, j \in 1..Len(AcceptedPart) :
      LET a == AcceptedPart[i]
          b == AcceptedPart[j]
      IN (a.score = <<>> /\ b.score # <<>>
            /\ EmittedAs(a.candidateId, "accepted"))
           => EmittedAs(b.candidateId, "accepted")

\* C18: in hybrid mode the emitted rejected items are min(sampleRejectedCount,
\* rejectedCount) many, pairwise distinct, each a candidate of the rejected
\* partition, each with status rejected and reason "Filtered out".
C18_RejectedSample ==
  (Recorded /\ ~recorded.captureAll) =>
    LET sample == Emitted("rejected")
    IN /\ Len(sample) = Min2(SampleCount, Len(RejectedPart))
       /\ \A i, j \in 1..Len(sample) :
            sample[i].candidateId = sample[j].candidateId => i = j
       /\ \A i \in 1..Len(sample) :
            /\ \E k \in 1..Len(RejectedPart) :
                 RejectedPart[k].candidateId = sample[i].candidateId
            /\ ~Includes(recorded.acceptedIds, sample[i].candidateId)
            /\ sample[i].reason = "Filtered out"

\* C19: after recordCandidates the step's counts satisfy
\* 0 <= outputCount <= inputCount.
C19_CountsOrdered ==
  \A i \in 1..Len(pendingSteps) :
    LET step == pendingSteps[i]
    IN (step.inputCount # <<>> /\ step.outputCount # <<>>) =>
         /\ 0 <= step.outputCount[1]
         /\ step.outputCount[1] <= step.inputCount[1]

\* C20: once completeStep has returned for the step whose candidates were
\* recorded, the persisted step carries inputCount = the size of the batch
\* and outputCount = the number of accepted candidates.
C20_CountsPersisted ==
  (Recorded /\ recorded.stepId \in hist.closed) =>
    LET row == dbSteps[recorded.stepId]
    IN /\ row.inputCount = <<Len(recorded.candidates)>>
       /\ row.outputCount = <<Len(AcceptedPart)>>

\* C26: when completeRun issues the run's update, every step of the registry
\* has its closing update applied; and a completeRun whose force-close
\* update fails ends there, without an update of the run.
C26_ForceCloseBeforeRunUpdate ==
  [][\A c \in Slots :
       /\ (calls'[c].req.kind = "updateRun" /\ calls[c].req.kind # "updateRun") =>
            \A i \in 1..Len(pendingSteps') :
              dbSteps'[pendingSteps'[i].id].status # "running"
       /\ (calls[c].op = "completeRun" /\ calls[c].req.kind = "updateStep"
             /\ event' = Ev("completeRun", "Transport") /\ calls'[c] # calls[c]) =>
            /\ calls'[c] = IdleFrame
            /\ dbRuns' = dbRuns]_vars

\* C27: every step of the registry belongs to the active run, and the
\* registry is empty while no run is active, calls suspended at their
\* requests included.
C27_RegistryOfOpenRun ==
  /\ currentRun = Null => pendingSteps = <<>>
  /\ \A i \in 1..Len(pendingSteps) : pendingSteps[i].runId = currentRun.id

\* C28: a startStep that fails at createStep leaves the step counter at the
\* index the call took and the registry as it was.
C28_FailedOpenStepConsumesNothing ==
  [][\A c \in Slots :
       (calls[c].op = "startStep" /\ event' = Ev("startStep", "Transport")
          /\ calls'[c] = IdleFrame) =>
         /\ stepIndex' = calls[c].req.stepIndex
         /\ pendingSteps' = pendingSteps]_vars

\* C29: a completeStep that fails at updateStep leaves its step in the
\* registry, running and without completion data.
C29_FailedCloseStepLeavesOpen ==
  [][\A c \in Slots :
       (calls[c].op = "completeStep" /\ event' = Ev("completeStep", "Transport")
          /\ calls'[c] = IdleFrame) =>
         \E i \in 1..Len(pendingSteps') :
           /\ pendingSteps'[i].id = calls[c].req.id
           /\ pendingSteps'[i].status = "running"
           /\ ~pendingSteps'[i].completedAt
           /\ pendingSteps'[i].output = Undef
           /\ pendingSteps'[i].error = Undef]_vars

\* C30: between calls, the run getCurrentRun returns is running and has no
\* completion timestamp, output or error, after a completeRun that failed at
\* a request included.
C30_ActiveRunIsRunning ==
  (currentRun # Null /\ \A c \in Slots : ~Busy(c)) =>
    /\ currentRun.status = "running"
    /\ ~currentRun.completedAt
    /\ currentRun.output = Undef
    /\ currentRun.error = Undef

\* The query was answered last: answer is the answer to the table as it is.
Answered == event = Ev("high-elimination", "answered")

C23_FilterCountsOrdered ==
  \A f \in 1..Len(dbFilters) :
    dbFilters[f].candidatesRejected <= dbFilters[f].candidatesAffected

\* The run was answered last: answer is the answer to the tables as they are.
RunAnswered == event = Ev("run", "answered")

\* C25: the answer to GET /api/runs/:id holds every step of the run once, in
\* ascending stepIndex, and with every step all of its persisted candidates
\* and all of its persisted filters.
C25_RunWithAllDetails ==
  RunAnswered =>
    LET rows == answer.rows
    IN /\ {rows[i].id : i \in DOMAIN rows} = StepsOfRun(dbSteps, answer.arg)
       /\ Len(rows) = Cardinality(StepsOfRun(dbSteps, answer.arg))
       /\ \A i, j \in DOMAIN rows :
            i < j => dbSteps[rows[i].id].stepIndex <= dbSteps[rows[j].id].stepIndex
       /\ \A i \in DOMAIN rows :
            /\ {rows[i].candidates[k] : k \in DOMAIN rows[i].candidates}
                 = {k \in 1..Len(dbCandidates) : dbCandidates[k].stepId = rows[i].id}
            /\ {rows[i].filters[k] : k \in DOMAIN rows[i].filters}
                 = {k \in 1..Len(dbFilters) : dbFilters[k].stepId = rows[i].id}

\* C24: no recordCandidates call runs with a negative fullCaptureThreshold,
\* topAcceptedCount or sampleRejectedCount: the constructor rejects such a
\* config.
C24_ThresholdsValid ==
  Recorded => (Threshold >= 0 /\ TopCount >= 0 /\ SampleCount >= 0)

====
